---- MODULE Spec2Model ----
(***************************************************************************)
(* A model of chalk-rust-ir (src/chalk-rust-ir/src/lib.rs): the lowering   *)
(* of inline bounds to where clauses, the construction of bound-variable   *)
(* parameters, the bounds an associated type declaration puts on itself,   *)
(* and the polarity test of an impl.                                       *)
(*                                                                         *)
(* The functions of the crate are pure; each is an operator here, and an   *)
(* action per function applies it to inputs drawn by Init.  The term       *)
(* representation (chalk_ir: Ty, Lifetime, Parameter, BoundVar, shift,     *)
(* cast, Substitution) is not part of the crate's source and is modelled   *)
(* from its description.                                                   *)
(***************************************************************************)
EXTENDS Integers, Sequences, FiniteSets

VARIABLES
    op,          \* the function that returned last ("none" before any call)
    out,         \* its return value
    bound,       \* the QuantifiedInlineBound a lowering call receives
    self_ty,     \* the self type a lowering call receives
    param,       \* the inputs of to_parameter: binders, kind, index, debruijn
    datum,       \* the AssociatedTyDatum bounds_on_self is called on
    returned,    \* what each bounds_on_self call on datum has returned so far
    impl_datum   \* the ImplDatum is_positive / trait_id is called on

vars == <<op, out, bound, self_ty, param, datum, returned, impl_datum>>

----------------------------------------------------------------------------
(* Bounds of the model *)

MaxDepth == 1      \* largest de Bruijn depth of a bound variable in an input
MaxArgs == 2       \* longest args_no_self
MaxParams == 1     \* longest AliasEqBound.parameters
MaxShape == 2      \* longest binder shape
MaxBounds == 2     \* longest bounds list of an associated type declaration
MaxCalls == 2      \* bounds_on_self calls on one declaration

----------------------------------------------------------------------------
(* Terms (chalk_ir) *)

ParameterKinds == {"Ty", "Lifetime"}

INNERMOST == 0

BoundVar_new(debruijn, index) == [debruijn |-> debruijn, index |-> index]

TyData_BoundVar(bound_var) == [tag |-> "BoundVar", bound_var |-> bound_var]

LifetimeData_BoundVar(bound_var) == [tag |-> "BoundVar", bound_var |-> bound_var]

TyData_Apply(name) == [tag |-> "Apply", name |-> name]

TyData_Alias(alias) == [tag |-> "Alias", alias |-> alias]

TyData_Function(parameters) == [tag |-> "Function", parameters |-> parameters]

AliasTy(associated_ty_id, substitution) ==
    [associated_ty_id |-> associated_ty_id, substitution |-> substitution]

\* cast of a type / a lifetime to a Parameter
CastTy(ty) == [kind |-> "Ty", data |-> ty]

CastLifetime(lifetime) == [kind |-> "Lifetime", data |-> lifetime]

\* Substitution::from(iter): the parameters in iteration order
Substitution_from(parameters) == parameters

\* BoundVar::shifted_in: one more binder between the variable and its scope
BoundVar_shifted_in(bound_var) ==
    BoundVar_new(bound_var.debruijn + 1, bound_var.index)

RECURSIVE ShiftTy(_, _)
RECURSIVE ShiftParameter(_, _)

\* The shifter's fold of a type: a variable bound at or outside outer_binder is
\* free and moves in by one; a function type opens a binder of its own.
ShiftTy(ty, outer_binder) ==
    CASE ty.tag = "BoundVar" ->
            IF ty.bound_var.debruijn >= outer_binder
            THEN TyData_BoundVar(BoundVar_shifted_in(ty.bound_var))
            ELSE ty
      [] ty.tag = "Apply" -> ty
      [] ty.tag = "Alias" ->
            TyData_Alias(AliasTy(ty.alias.associated_ty_id,
                [i \in DOMAIN ty.alias.substitution |->
                    ShiftParameter(ty.alias.substitution[i], outer_binder)]))
      [] ty.tag = "Function" ->
            TyData_Function([i \in DOMAIN ty.parameters |->
                ShiftParameter(ty.parameters[i], outer_binder + 1)])

ShiftParameter(p, outer_binder) ==
    IF p.kind = "Ty"
    THEN CastTy(ShiftTy(p.data, outer_binder))
    ELSE IF p.data.bound_var.debruijn >= outer_binder
         THEN CastLifetime(LifetimeData_BoundVar(BoundVar_shifted_in(p.data.bound_var)))
         ELSE p

\* Ty::shifted_in(interner)
shifted_in(ty) == ShiftTy(ty, INNERMOST)

----------------------------------------------------------------------------
(* Binders and where clauses *)

Binders(binders, value) == [binders |-> binders, value |-> value]

TraitRef(trait_id, substitution) ==
    [trait_id |-> trait_id, substitution |-> substitution]

WhereClause_Implemented(trait_ref) == [tag |-> "Implemented", trait_ref |-> trait_ref]

WhereClause_AliasEq(alias, ty) == [tag |-> "AliasEq", alias |-> alias, ty |-> ty]

----------------------------------------------------------------------------
(* ToParameter for (&ParameterKind<()>, usize) *)

\* to_parameter_at_depth with the arms of the match exchanged
to_parameter_at_depth_arms_exchanged(binder, index, debruijn) ==
    LET bound_var == BoundVar_new(debruijn, index)
    IN  IF binder = "Lifetime"
        THEN CastTy(TyData_BoundVar(bound_var))
        ELSE CastLifetime(LifetimeData_BoundVar(bound_var))

\* to_parameter_at_depth that keeps the index inside a one-parameter scope
to_parameter_at_depth_index_clamped(binder, index, debruijn) ==
    LET bound_var == BoundVar_new(debruijn, IF index > 0 THEN 0 ELSE index)
    IN  IF binder = "Lifetime"
        THEN CastLifetime(LifetimeData_BoundVar(bound_var))
        ELSE CastTy(TyData_BoundVar(bound_var))

to_parameter_at_depth(binder, index, debruijn) ==
    LET bound_var == BoundVar_new(debruijn, index)
    IN  IF binder = "Lifetime"
        THEN CastLifetime(LifetimeData_BoundVar(bound_var))
        ELSE CastTy(TyData_BoundVar(bound_var))

to_parameter(binder, index) == to_parameter_at_depth(binder, index, INNERMOST)

----------------------------------------------------------------------------
(* Inline bounds *)

TraitBound(trait_id, args_no_self) ==
    [trait_id |-> trait_id, args_no_self |-> args_no_self]

AliasEqBound(trait_bound, associated_ty_id, parameters, value) ==
    [trait_bound |-> trait_bound, associated_ty_id |-> associated_ty_id,
     parameters |-> parameters, value |-> value]

InlineBound_TraitBound(b) == [tag |-> "TraitBound", b |-> b]

InlineBound_AliasEqBound(b) == [tag |-> "AliasEqBound", b |-> b]

\* as_trait_ref with the self type chained after args_no_self
TraitBound_as_trait_ref_self_last(b, ty) ==
    TraitRef(b.trait_id, Substitution_from(b.args_no_self \o <<CastTy(ty)>>))

\* iter::once(self_ty.cast()).chain(args_no_self.iter().cloned())
TraitBound_as_trait_ref(b, ty) ==
    TraitRef(b.trait_id, Substitution_from(<<CastTy(ty)>> \o b.args_no_self))

TraitBound_into_where_clauses(b, ty) ==
    LET trait_ref == TraitBound_as_trait_ref(b, ty)
    IN  <<WhereClause_Implemented(trait_ref)>>

\* AliasEqBound lowering with the trait reference's arguments chained first
AliasEqBound_into_where_clauses_trait_args_first(b, ty) ==
    LET trait_ref == TraitBound_as_trait_ref(b.trait_bound, ty)
        substitution == Substitution_from(trait_ref.substitution \o b.parameters)
    IN  << WhereClause_Implemented(trait_ref),
           WhereClause_AliasEq(AliasTy(b.associated_ty_id, substitution), b.value) >>

AliasEqBound_into_where_clauses(b, ty) ==
    LET trait_ref == TraitBound_as_trait_ref(b.trait_bound, ty)
        substitution == Substitution_from(b.parameters \o trait_ref.substitution)
    IN  << WhereClause_Implemented(trait_ref),
           WhereClause_AliasEq(AliasTy(b.associated_ty_id, substitution), b.value) >>

InlineBound_into_where_clauses(ib, ty) ==
    IF ib.tag = "TraitBound"
    THEN TraitBound_into_where_clauses(ib.b, ty)
    ELSE AliasEqBound_into_where_clauses(ib.b, ty)

\* QuantifiedInlineBound lowering without the shift of the self type
QuantifiedInlineBound_into_where_clauses_unshifted(q, ty) ==
    LET clauses == InlineBound_into_where_clauses(q.value, ty)
    IN  [i \in DOMAIN clauses |-> Binders(q.binders, clauses[i])]

ShiftSubstitution(substitution) ==
    [i \in DOMAIN substitution |-> ShiftParameter(substitution[i], INNERMOST)]

ShiftWhereClause(wc) ==
    IF wc.tag = "Implemented"
    THEN WhereClause_Implemented(
            TraitRef(wc.trait_ref.trait_id, ShiftSubstitution(wc.trait_ref.substitution)))
    ELSE WhereClause_AliasEq(
            AliasTy(wc.alias.associated_ty_id, ShiftSubstitution(wc.alias.substitution)),
            shifted_in(wc.ty))

\* QuantifiedInlineBound lowering that shifts the lowered clauses, and with
\* them the bound's own terms, instead of the self type alone
QuantifiedInlineBound_into_where_clauses_clauses_shifted(q, ty) ==
    LET clauses == InlineBound_into_where_clauses(q.value, ty)
    IN  [i \in DOMAIN clauses |-> Binders(q.binders, ShiftWhereClause(clauses[i]))]

QuantifiedInlineBound_into_where_clauses(q, ty) ==
    LET shifted == shifted_in(ty)
        clauses == InlineBound_into_where_clauses(q.value, shifted)
    IN  [i \in DOMAIN clauses |-> Binders(q.binders, clauses[i])]

----------------------------------------------------------------------------
(* AssociatedTyDatum *)

AssociatedTyDatumBound(bounds, where_clauses) ==
    [bounds |-> bounds, where_clauses |-> where_clauses]

AssociatedTyDatum(trait_id, id, binders) ==
    [trait_id |-> trait_id, id |-> id, binders |-> binders]

\* The self type with the binders zipped with 1.. instead of 0..
bounds_on_self_self_ty_from_one(d) ==
    LET binders == d.binders.binders
        substitution == Substitution_from(
            [i \in 1..Len(binders) |-> to_parameter(binders[i], i)])
    IN  TyData_Alias(AliasTy(d.id, substitution))

\* The self type bounds_on_self builds: the projection of the associated type
\* applied to references to the binders in scope.
bounds_on_self_self_ty(d) ==
    LET binders == d.binders.binders
        substitution == Substitution_from(
            [i \in 1..Len(binders) |-> to_parameter(binders[i], i - 1)])
    IN  TyData_Alias(AliasTy(d.id, substitution))

RECURSIVE flat_map_into_where_clauses_reversed(_, _)

\* The concatenation with each bound's clauses put in front of the earlier ones
flat_map_into_where_clauses_reversed(bounds, ty) ==
    IF bounds = <<>>
    THEN <<>>
    ELSE flat_map_into_where_clauses_reversed(Tail(bounds), ty)
            \o QuantifiedInlineBound_into_where_clauses(Head(bounds), ty)

RECURSIVE flat_map_into_where_clauses(_, _)

\* bounds.iter().flat_map(|b| b.into_where_clauses(self_ty.clone())).collect()
flat_map_into_where_clauses(bounds, ty) ==
    IF bounds = <<>>
    THEN <<>>
    ELSE QuantifiedInlineBound_into_where_clauses(Head(bounds), ty)
            \o flat_map_into_where_clauses(Tail(bounds), ty)

bounds_on_self(d) ==
    flat_map_into_where_clauses(d.binders.value.bounds, bounds_on_self_self_ty(d))

----------------------------------------------------------------------------
(* ImplDatum and Polarity *)

Polarities == {"Positive", "Negative"}

ImplTypes == {"Local", "External"}

ImplDatumBound(trait_ref, where_clauses) ==
    [trait_ref |-> trait_ref, where_clauses |-> where_clauses]

ImplDatum(polarity, binders, impl_type, associated_ty_value_ids) ==
    [polarity |-> polarity, binders |-> binders, impl_type |-> impl_type,
     associated_ty_value_ids |-> associated_ty_value_ids]

\* is_positive with the arms of the match exchanged
Polarity_is_positive_arms_exchanged(polarity) ==
    CASE polarity = "Positive" -> FALSE
      [] polarity = "Negative" -> TRUE

Polarity_is_positive(polarity) ==
    CASE polarity = "Positive" -> TRUE
      [] polarity = "Negative" -> FALSE

ImplDatum_is_positive(d) == Polarity_is_positive(d.polarity)

ImplDatum_trait_id(d) == d.binders.value.trait_ref.trait_id

----------------------------------------------------------------------------
(* The inputs the calls are made on *)

TraitIds == {"T1", "T2"}

AssocTypeIds == {"A1", "A2"}

SeqsUpTo(S, n) == UNION {[1..k -> S] : k \in 0..n}

TyVar(debruijn, index) == TyData_BoundVar(BoundVar_new(debruijn, index))

LifetimeVar(debruijn, index) == LifetimeData_BoundVar(BoundVar_new(debruijn, index))

\* Binder shapes: every kind sequence up to MaxShape
Shapes == SeqsUpTo(ParameterKinds, MaxShape)

\* Self types written in the scope outside the bound: variables free at every
\* depth, a type without variables, a projection, and function types whose
\* own binder captures (depth 0) or does not capture (depth 1) the variable.
SelfTys ==
    {TyVar(d, i) : d \in 0..MaxDepth, i \in 0..1}
        \cup { TyData_Apply("S"),
               TyData_Alias(AliasTy("A1",
                    <<CastTy(TyVar(0, 0)), CastLifetime(LifetimeVar(MaxDepth, 1))>>)),
               TyData_Function(<<CastTy(TyVar(0, 0))>>),
               TyData_Function(<<CastTy(TyVar(1, 0)), CastLifetime(LifetimeVar(0, 1))>>) }

\* Terms written inside the bound's own binder
ArgPool == {CastTy(TyVar(0, 0)), CastLifetime(LifetimeVar(1, 0))}

ParamPool == {CastLifetime(LifetimeVar(0, 1)), CastTy(TyData_Apply("S"))}

ValuePool == {TyVar(1, 1), TyData_Apply("U")}

BoundShapes == {<< >>, <<"Ty">>, <<"Lifetime", "Ty">>}

TraitBounds ==
    {TraitBound(t, a) : t \in TraitIds, a \in SeqsUpTo(ArgPool, MaxArgs)}

AliasEqBounds ==
    {AliasEqBound(tb, a, ps, v) :
        tb \in TraitBounds, a \in AssocTypeIds,
        ps \in SeqsUpTo(ParamPool, MaxParams), v \in ValuePool}

InlineBounds ==
    {InlineBound_TraitBound(b) : b \in TraitBounds}
        \cup {InlineBound_AliasEqBound(b) : b \in AliasEqBounds}

QuantifiedInlineBounds ==
    {Binders(s, ib) : s \in BoundShapes, ib \in InlineBounds}

\* The bounds an associated type declaration is built from
DeclBounds ==
    { Binders(<< >>, InlineBound_TraitBound(TraitBound("T1", << >>))),
      Binders(<<"Ty">>,
          InlineBound_TraitBound(TraitBound("T2", <<CastTy(TyVar(0, 0))>>))),
      Binders(<<"Lifetime">>,
          InlineBound_AliasEqBound(AliasEqBound(
              TraitBound("T1", <<CastLifetime(LifetimeVar(0, 0))>>),
              "A1", <<CastTy(TyVar(1, 0))>>, TyData_Apply("U")))),
      Binders(<< >>,
          InlineBound_AliasEqBound(AliasEqBound(
              TraitBound("T2", << >>), "A2", << >>, TyVar(1, 0)))) }

AssociatedTyDatums ==
    {AssociatedTyDatum("T1", a, Binders(s, AssociatedTyDatumBound(bs, << >>))) :
        a \in AssocTypeIds, s \in Shapes, bs \in SeqsUpTo(DeclBounds, MaxBounds)}

ImplDatums ==
    {ImplDatum(p, Binders(s, ImplDatumBound(TraitRef(t, <<CastTy(TyData_Apply("S"))>>), << >>)),
               it, vs) :
        p \in Polarities, s \in Shapes, t \in TraitIds, it \in ImplTypes,
        vs \in {<< >>, <<"V1">>}}

ToParameterInputs ==
    [binders : Shapes, kind : ParameterKinds, index : 0..MaxShape, debruijn : 0..MaxDepth]

\* No value: before any call, and for what a specification does not use
None == [tag |-> "none"]

NoCall == "none"

----------------------------------------------------------------------------
(* to_parameter / to_parameter_at_depth on a (kind, index) pair *)

InitParam ==
    /\ op = NoCall /\ out = None
    /\ param \in ToParameterInputs
    /\ bound = None /\ self_ty = None /\ datum = None /\ returned = << >>
    /\ impl_datum = None

Call_to_parameter ==
    /\ op = NoCall
    /\ op' = "to_parameter"
    /\ out' = to_parameter(param.kind, param.index)
    /\ UNCHANGED <<bound, self_ty, param, datum, returned, impl_datum>>

Call_to_parameter_at_depth ==
    /\ op = NoCall
    /\ op' = "to_parameter_at_depth"
    /\ out' = to_parameter_at_depth(param.kind, param.index, param.debruijn)
    /\ UNCHANGED <<bound, self_ty, param, datum, returned, impl_datum>>

NextParam == Call_to_parameter \/ Call_to_parameter_at_depth

SpecParam == InitParam /\ [][NextParam]_vars

----------------------------------------------------------------------------
(* Lowering one inline bound with a self type *)

InitLower ==
    /\ op = NoCall /\ out = None
    /\ bound \in QuantifiedInlineBounds
    /\ self_ty \in SelfTys
    /\ param = None /\ datum = None /\ returned = << >> /\ impl_datum = None

Call_as_trait_ref ==
    /\ op = NoCall
    /\ bound.value.tag = "TraitBound"
    /\ op' = "TraitBound::as_trait_ref"
    /\ out' = TraitBound_as_trait_ref(bound.value.b, self_ty)
    /\ UNCHANGED <<bound, self_ty, param, datum, returned, impl_datum>>

Call_TraitBound_into_where_clauses ==
    /\ op = NoCall
    /\ bound.value.tag = "TraitBound"
    /\ op' = "TraitBound::into_where_clauses"
    /\ out' = TraitBound_into_where_clauses(bound.value.b, self_ty)
    /\ UNCHANGED <<bound, self_ty, param, datum, returned, impl_datum>>

Call_AliasEqBound_into_where_clauses ==
    /\ op = NoCall
    /\ bound.value.tag = "AliasEqBound"
    /\ op' = "AliasEqBound::into_where_clauses"
    /\ out' = AliasEqBound_into_where_clauses(bound.value.b, self_ty)
    /\ UNCHANGED <<bound, self_ty, param, datum, returned, impl_datum>>

Call_InlineBound_into_where_clauses ==
    /\ op = NoCall
    /\ op' = "InlineBound::into_where_clauses"
    /\ out' = InlineBound_into_where_clauses(bound.value, self_ty)
    /\ UNCHANGED <<bound, self_ty, param, datum, returned, impl_datum>>

Call_QuantifiedInlineBound_into_where_clauses ==
    /\ op = NoCall
    /\ op' = "QuantifiedInlineBound::into_where_clauses"
    /\ out' = QuantifiedInlineBound_into_where_clauses(bound, self_ty)
    /\ UNCHANGED <<bound, self_ty, param, datum, returned, impl_datum>>

NextLower ==
    \/ Call_as_trait_ref
    \/ Call_TraitBound_into_where_clauses
    \/ Call_AliasEqBound_into_where_clauses
    \/ Call_InlineBound_into_where_clauses
    \/ Call_QuantifiedInlineBound_into_where_clauses

SpecLower == InitLower /\ [][NextLower]_vars

----------------------------------------------------------------------------
(* bounds_on_self on an associated type declaration, called repeatedly, with *)
(* lowerings of single bounds of the declaration in between                 *)

InitDatum ==
    /\ op = NoCall /\ out = None
    /\ datum \in AssociatedTyDatums
    /\ returned = << >>
    /\ bound = None /\ self_ty = None /\ param = None /\ impl_datum = None

\* bounds_on_self that takes the bounds out of the declaration as it lowers them
Call_bounds_on_self_draining ==
    /\ Len(returned) < MaxCalls
    /\ op' = "bounds_on_self"
    /\ self_ty' = bounds_on_self_self_ty(datum)
    /\ out' = bounds_on_self(datum)
    /\ returned' = Append(returned, [datum |-> datum, out |-> out'])
    /\ datum' = [datum EXCEPT !.binders.value.bounds = << >>]
    /\ UNCHANGED <<bound, param, impl_datum>>

\* bounds_on_self takes &self: the declaration is read, never written
Call_bounds_on_self ==
    /\ Len(returned) < MaxCalls
    /\ op' = "bounds_on_self"
    /\ self_ty' = bounds_on_self_self_ty(datum)
    /\ out' = bounds_on_self(datum)
    /\ returned' = Append(returned, [datum |-> datum, out |-> out'])
    /\ UNCHANGED <<bound, param, datum, impl_datum>>

Call_bound_into_where_clauses ==
    /\ \E j \in DOMAIN datum.binders.value.bounds :
        /\ bound' = datum.binders.value.bounds[j]
        /\ self_ty' = bounds_on_self_self_ty(datum)
        /\ out' = QuantifiedInlineBound_into_where_clauses(bound', self_ty')
    /\ op' = "QuantifiedInlineBound::into_where_clauses"
    /\ UNCHANGED <<param, datum, returned, impl_datum>>

NextDatum == Call_bounds_on_self \/ Call_bound_into_where_clauses

SpecDatum == InitDatum /\ [][NextDatum]_vars

----------------------------------------------------------------------------
(* The accessors of an impl *)

InitImpl ==
    /\ op = NoCall /\ out = None
    /\ impl_datum \in ImplDatums
    /\ bound = None /\ self_ty = None /\ param = None /\ datum = None
    /\ returned = << >>

Call_is_positive ==
    /\ op = NoCall
    /\ op' = "ImplDatum::is_positive"
    /\ out' = ImplDatum_is_positive(impl_datum)
    /\ UNCHANGED <<bound, self_ty, param, datum, returned, impl_datum>>

Call_trait_id ==
    /\ op = NoCall
    /\ op' = "ImplDatum::trait_id"
    /\ out' = ImplDatum_trait_id(impl_datum)
    /\ UNCHANGED <<bound, self_ty, param, datum, returned, impl_datum>>

NextImpl == Call_is_positive \/ Call_trait_id

SpecImpl == InitImpl /\ [][NextImpl]_vars

----------------------------------------------------------------------------
(* Reading terms back *)

\* The free bound variables of a term, left to right, each with its kind, its
\* index and its depth counted from outside the term.
RECURSIVE FreeVarsTy(_, _)
RECURSIVE FreeVarsParameter(_, _)
RECURSIVE FreeVarsSeq(_, _)

FreeVarsTy(ty, crossed) ==
    CASE ty.tag = "BoundVar" ->
            IF ty.bound_var.debruijn >= crossed
            THEN << [kind |-> "Ty", debruijn |-> ty.bound_var.debruijn - crossed,
                     index |-> ty.bound_var.index] >>
            ELSE << >>
      [] ty.tag = "Apply" -> << >>
      [] ty.tag = "Alias" -> FreeVarsSeq(ty.alias.substitution, crossed)
      [] ty.tag = "Function" -> FreeVarsSeq(ty.parameters, crossed + 1)

FreeVarsParameter(p, crossed) ==
    IF p.kind = "Ty"
    THEN FreeVarsTy(p.data, crossed)
    ELSE IF p.data.bound_var.debruijn >= crossed
         THEN << [kind |-> "Lifetime", debruijn |-> p.data.bound_var.debruijn - crossed,
                  index |-> p.data.bound_var.index] >>
         ELSE << >>

FreeVarsSeq(ps, crossed) ==
    IF ps = << >>
    THEN << >>
    ELSE FreeVarsParameter(Head(ps), crossed) \o FreeVarsSeq(Tail(ps), crossed)

OneDeeper(fvs) == [i \in DOMAIN fvs |-> [fvs[i] EXCEPT !.debruijn = @ + 1]]

\* The TraitBound of an inline bound
TraitBoundOf(ib) == IF ib.tag = "TraitBound" THEN ib.b ELSE ib.b.trait_bound

\* The number of clauses an inline bound lowers to
ClauseCount(q) == IF q.value.tag = "TraitBound" THEN 1 ELSE 2

RECURSIVE ClausesBefore(_, _)
\* The number of clauses the bounds before position j lower to
ClausesBefore(bounds, j) ==
    IF j <= 1 THEN 0 ELSE ClausesBefore(bounds, j - 1) + ClauseCount(bounds[j - 1])

\* The position of the self type in a clause's substitution, given the bound
SelfArgument(wc, ib) ==
    IF wc.tag = "Implemented"
    THEN wc.trait_ref.substitution[1]
    ELSE wc.alias.substitution[Len(ib.b.parameters) + 1]

----------------------------------------------------------------------------
(* The claims *)

\* C1: lowering a TraitBound b with self type X returns exactly one clause,
\* Implemented, with b's trait id and the arguments [X] ++ b.args_no_self: X
\* first, then args_no_self in their order, 1 + len(args_no_self) in all.
\* as_trait_ref returns that trait reference.
C1_TraitBoundLowersToImplemented ==
    /\ op = "TraitBound::into_where_clauses" =>
        LET b == bound.value.b
            substitution == out[1].trait_ref.substitution
        IN  /\ Len(out) = 1
            /\ out[1].tag = "Implemented"
            /\ out[1].trait_ref.trait_id = b.trait_id
            /\ Len(substitution) = 1 + Len(b.args_no_self)
            /\ substitution[1].kind = "Ty"
            /\ substitution[1].data = self_ty
            /\ \A i \in 1..Len(b.args_no_self) : substitution[i + 1] = b.args_no_self[i]
    /\ op = "TraitBound::as_trait_ref" =>
        LET b == bound.value.b
        IN  /\ out.trait_id = b.trait_id
            /\ Len(out.substitution) = 1 + Len(b.args_no_self)
            /\ out.substitution[1].kind = "Ty"
            /\ out.substitution[1].data = self_ty
            /\ \A i \in 1..Len(b.args_no_self) : out.substitution[i + 1] = b.args_no_self[i]

C1_Witness ==
    /\ op = "TraitBound::into_where_clauses"
    /\ Len(bound.value.b.args_no_self) = 2
    /\ bound.value.b.args_no_self[1] # bound.value.b.args_no_self[2]
    /\ self_ty.tag = "Alias"
    /\ Len(out) = 1

\* C2: lowering an AliasEqBound b with self type X returns exactly two clauses:
\* first the Implemented clause of b.trait_bound with X, second an AliasEq
\* clause of b.associated_ty_id whose substitution is b.parameters ++ [X] ++
\* b.trait_bound.args_no_self and whose type is b.value.
C2_AliasEqBoundLowersToTwoClauses ==
    op = "AliasEqBound::into_where_clauses" =>
        LET b == bound.value.b
            args == b.trait_bound.args_no_self
            np == Len(b.parameters)
            impl_subst == out[1].trait_ref.substitution
            alias_subst == out[2].alias.substitution
        IN  /\ Len(out) = 2
            /\ out[1].tag = "Implemented"
            /\ out[1].trait_ref.trait_id = b.trait_bound.trait_id
            /\ Len(impl_subst) = 1 + Len(args)
            /\ impl_subst[1].kind = "Ty" /\ impl_subst[1].data = self_ty
            /\ \A i \in 1..Len(args) : impl_subst[i + 1] = args[i]
            /\ out[2].tag = "AliasEq"
            /\ out[2].alias.associated_ty_id = b.associated_ty_id
            /\ Len(alias_subst) = np + 1 + Len(args)
            /\ \A i \in 1..np : alias_subst[i] = b.parameters[i]
            /\ alias_subst[np + 1].kind = "Ty" /\ alias_subst[np + 1].data = self_ty
            /\ \A i \in 1..Len(args) : alias_subst[np + 1 + i] = args[i]
            /\ out[2].ty = b.value

C2_Witness ==
    /\ op = "AliasEqBound::into_where_clauses"
    /\ Len(bound.value.b.parameters) = 1
    /\ Len(bound.value.b.trait_bound.args_no_self) = 2
    /\ self_ty.tag = "BoundVar"
    /\ Len(out) = 2

\* C3: lowering a QuantifiedInlineBound q of shape S with self type X returns
\* the clauses of q's inner bound lowered with X shifted in by one, as many and
\* in the same order, each in a binder of shape S; in each clause the free
\* bound variables of X stand one level deeper, with the same index.
C3_QuantifiedLoweringShiftsAndRewraps ==
    op = "QuantifiedInlineBound::into_where_clauses" =>
        LET inner == InlineBound_into_where_clauses(bound.value, shifted_in(self_ty))
        IN  /\ Len(out) = Len(inner)
            /\ Len(out) = ClauseCount(bound)
            /\ \A i \in 1..Len(out) :
                /\ out[i].binders = bound.binders
                /\ out[i].value = inner[i]
                /\ FreeVarsParameter(SelfArgument(out[i].value, bound.value), 0)
                        = OneDeeper(FreeVarsTy(self_ty, 0))

C3_Witness ==
    /\ op = "QuantifiedInlineBound::into_where_clauses"
    /\ bound.binders = <<"Lifetime", "Ty">>
    /\ self_ty.tag = "Function"
    /\ Len(self_ty.parameters) = 2
    /\ Len(FreeVarsTy(self_ty, 0)) = 1
    /\ Len(out) = 2

\* C4: bounds_on_self(d) is the concatenation, in the order of d's bounds, of
\* the clauses each bound lowers to with the one self projection: 1 clause per
\* TraitBound, 2 per AliasEqBound, none for an empty bounds list.
C4_BoundsOnSelfConcatenatesInOrder ==
    op = "bounds_on_self" =>
        LET bounds == datum.binders.value.bounds
        IN  /\ Len(out) = ClausesBefore(bounds, Len(bounds) + 1)
            /\ bounds = << >> => out = << >>
            /\ \A j \in 1..Len(bounds) :
                SubSeq(out, ClausesBefore(bounds, j) + 1,
                            ClausesBefore(bounds, j) + ClauseCount(bounds[j]))
                    = QuantifiedInlineBound_into_where_clauses(bounds[j], self_ty)

C4_Witness ==
    /\ op = "bounds_on_self"
    /\ Len(datum.binders.value.bounds) = 2
    /\ datum.binders.value.bounds[1].value.tag = "AliasEqBound"
    /\ datum.binders.value.bounds[2].value.tag = "TraitBound"
    /\ Len(out) = 3

\* C5: the self type bounds_on_self hands to the lowering of each bound is the
\* projection of d.id applied to len(S) parameters, the one at position i a
\* bound variable of the kind S[i] at depth 0 and index i.
C5_SelfTypeIsIdentityProjection ==
    op = "bounds_on_self" =>
        LET S == datum.binders.binders
            bounds == datum.binders.value.bounds
        IN  /\ self_ty.tag = "Alias"
            /\ self_ty.alias.associated_ty_id = datum.id
            /\ Len(self_ty.alias.substitution) = Len(S)
            /\ \A i \in 1..Len(S) :
                /\ self_ty.alias.substitution[i].kind = S[i]
                /\ self_ty.alias.substitution[i].data.tag = "BoundVar"
                /\ self_ty.alias.substitution[i].data.bound_var.debruijn = 0
                /\ self_ty.alias.substitution[i].data.bound_var.index = i - 1
            /\ \A j \in 1..Len(bounds) :
                out[ClausesBefore(bounds, j) + 1].value.trait_ref.substitution[1]
                    = CastTy(shifted_in(self_ty))

C5_Witness ==
    /\ op = "bounds_on_self"
    /\ datum.binders.binders = <<"Lifetime", "Ty">>
    /\ Len(datum.binders.value.bounds) = 2

\* C6: for a shape S and i < len(S), to_parameter on (S[i], i) builds a bound
\* variable of the kind S[i] that reads back as depth 0, index i;
\* to_parameter_at_depth with depth k gives the same at depth k.
C6_ToParameterRoundTrip ==
    (/\ op \in {"to_parameter", "to_parameter_at_depth"}
     /\ param.index < Len(param.binders)
     /\ param.kind = param.binders[param.index + 1]) =>
        /\ out.kind = param.binders[param.index + 1]
        /\ out.data.tag = "BoundVar"
        /\ out.data.bound_var.index = param.index
        /\ out.data.bound_var.debruijn =
                IF op = "to_parameter" THEN 0 ELSE param.debruijn

C6_Witness ==
    /\ op = "to_parameter_at_depth"
    /\ param.binders = <<"Ty", "Lifetime">>
    /\ param.index = 1
    /\ param.kind = "Lifetime"
    /\ param.debruijn = 1

C9_IsPositiveFollowsPolarity ==
    /\ impl_datum.polarity \in {"Positive", "Negative"}
    /\ op = "ImplDatum::is_positive" =>
        /\ impl_datum.polarity = "Positive" => out = TRUE
        /\ impl_datum.polarity = "Negative" => out = FALSE

C9_Witness ==
    /\ op = "ImplDatum::is_positive"
    /\ impl_datum.polarity = "Negative"
    /\ impl_datum.impl_type = "External"
    /\ out = FALSE

\* C10: lowering a QuantifiedInlineBound leaves the bound's own terms as they
\* are stored: args_no_self, and for an AliasEqBound parameters and value,
\* stand in the clauses unchanged, and so do the trait id and the associated
\* type id.
C10_BoundTermsAreNotShifted ==
    op = "QuantifiedInlineBound::into_where_clauses" =>
        LET ib == bound.value
            tb == TraitBoundOf(ib)
            impl_subst == out[1].value.trait_ref.substitution
        IN  /\ out[1].value.tag = "Implemented"
            /\ out[1].value.trait_ref.trait_id = tb.trait_id
            /\ SubSeq(impl_subst, 2, Len(impl_subst)) = tb.args_no_self
            /\ ib.tag = "AliasEqBound" =>
                LET alias_subst == out[2].value.alias.substitution
                    np == Len(ib.b.parameters)
                IN  /\ out[2].value.alias.associated_ty_id = ib.b.associated_ty_id
                    /\ SubSeq(alias_subst, 1, np) = ib.b.parameters
                    /\ SubSeq(alias_subst, np + 2, Len(alias_subst)) = tb.args_no_self
                    /\ out[2].value.ty = ib.b.value

C10_Witness ==
    /\ op = "QuantifiedInlineBound::into_where_clauses"
    /\ bound.value.tag = "AliasEqBound"
    /\ bound.binders = <<"Ty">>
    /\ Len(bound.value.b.parameters) = 1
    /\ bound.value.b.parameters[1].kind = "Lifetime"
    /\ Len(bound.value.b.trait_bound.args_no_self) = 2
    /\ bound.value.b.value.tag = "BoundVar"
    /\ Len(FreeVarsTy(self_ty, 0)) > 0

====
